---- MODULE Spec2Model ----
(***************************************************************************)
(* mrh - Multi-(git)Repo Helper.  A model of src/src/lib.rs: the Crawler   *)
(* iterator, the per-repository inspection repo_ops with its helpers       *)
(* diff_ops, remote_ops and make_relative, and the Output record.          *)
(*                                                                         *)
(* Calls into git2 / walkdir are the environment: every call returns one   *)
(* of the results its signature allows, chosen with \E in the action that  *)
(* makes the call.  Option<T> is a sequence of length 0 (None) or 1 (Some),*)
(* an IndexSet is a duplicate-free sequence in insertion order.            *)
(***************************************************************************)
EXTENDS Naturals, Sequences, FiniteSets, TLC

VARIABLES
    cfg,            \* the Crawler's option fields (lib.rs 62-67)
    pc,             \* where the caller / next() / repo_ops stands
    walked,         \* number of WalkDir items consumed by self.iter
    walkDone,       \* WalkDir has returned None
    repo,           \* the Repository handed to repo_ops by self.iter
    path,           \* repo_ops local: path
    pending,        \* repo_ops local: pending (IndexSet of labels)
    head_res,       \* repo_ops local: result of repo.head()
    local_head_oid, \* repo_ops local: local_head_oid
    statuses,       \* repo_ops local: result of repo.statuses()
    tags,           \* repo_ops local: result of repo.tag_names() (lines 199-215)
    upstream,       \* repo_ops local: result of local_branch.upstream() etc.
    callbacks,      \* remote_ops local: the credentials callback installed
    remote_res,     \* remote_ops local: what connect/list/branches/tags gave
    last,           \* the step of repo_ops that ran last for `repo`
    out,            \* value returned by the latest next()
    returned,       \* discovery indexes of the records returned so far
    k,              \* diff_ops driver: entries of `statuses` already folded
    stack,          \* walker driver: WalkDir's open directories, innermost last
    candidates      \* walker driver: paths handed to Repository::open so far

vars == <<cfg, pc, walked, walkDone, repo, path, pending, head_res,
          local_head_oid, statuses, tags, upstream, callbacks, remote_res,
          last, out, returned, k, stack, candidates>>

(***************************************************************************)
(* Bounds of the model.                                                    *)
(***************************************************************************)
MaxWalk == 2       \* WalkDir items before the walk must end
MaxStatus == 1     \* status entries of one repository (crawl)
MaxDiff == 2       \* status entries of one repository (diff_ops driver)
MaxTags == 1       \* local tags of one repository
MaxRefs == 1       \* references advertised by origin
MaxBranches == 1   \* branches of one repository
MaxOid == 2        \* distinct object ids
MaxCount == 2      \* largest ahead / behind count
MaxDepth == 2      \* depth of the directory tree below the root

None == <<>>
Some(x) == <<x>>
IsSome(o) == Len(o) = 1
Unwrap(o) == o[1]
Range(s) == {s[i] : i \in DOMAIN s}
SeqsUpTo(S, n) == UNION {[1..m -> S] : m \in 0..n}

Oids == 1..MaxOid

(***************************************************************************)
(* The label vocabulary (lib.rs 6-17 and the insert calls).                *)
(***************************************************************************)
UntrackedFiles == "untracked files"
UncommittedChanges == "uncommitted changes"
DeletedFiles == "deleted files"
RenamedFiles == "renamed files"
AddedFiles == "added files"
UntaggedHead == "untagged HEAD"
UnpushedCommits == "unpushed commits"
OutdatedBranch == "outdated branch"
UnfetchedCommits == "unfetched commits"
UnpushedTags == "unpushed tags"
UnpulledTags == "unpulled tags"

\* IndexSet::insert: a label already present is not added again.
InsertDup(set, l) == Append(set, l)
Insert(set, l) == IF l \in Range(set) THEN set ELSE Append(set, l)

(***************************************************************************)
(* git2::Error values: class, code and the call that failed.               *)
(***************************************************************************)
ErrUnborn == [class |-> "Reference", code |-> "UnbornBranch", call |-> "head"]
ErrHeadNotFound == [class |-> "Reference", code |-> "NotFound", call |-> "head"]
ErrHeadOther == [class |-> "Os", code |-> "GenericError", call |-> "head"]
ErrStatus == [class |-> "Index", code |-> "GenericError", call |-> "statuses"]
ErrConnect == [class |-> "Net", code |-> "Auth", call |-> "connect_auth"]
ErrTagNames == [class |-> "Reference", code |-> "GenericError", call |-> "tag_names"]
ErrUpstream == [class |-> "Config", code |-> "NotFound", call |-> "upstream"]
ErrGraph == [class |-> "Odb", code |-> "NotFound", call |-> "graph_ahead_behind"]
ErrList == [class |-> "Net", code |-> "GenericError", call |-> "list"]
ErrBranches == [class |-> "Reference", code |-> "GenericError", call |-> "branches"]
HeadErrors == {ErrUnborn, ErrHeadNotFound, ErrHeadOther}

\* struct Output
Output(p, pend, err) == [path |-> p, pending |-> pend, error |-> err]

(***************************************************************************)
(* Paths: sequences of components.                                         *)
(***************************************************************************)
RootPath == <<"a", "b">>
\* WalkDir yields the root itself first, then the entries below it.
WorkDir(i) == IF i = 1 THEN RootPath ELSE RootPath \o <<ToString(i)>>
IsPrefix(p, q) == Len(p) <= Len(q) /\ SubSeq(q, 1, Len(p)) = p
\* Crawler::make_relative
make_relative(root_path, target_dir) ==
    IF IsPrefix(root_path, target_dir)
    THEN LET rest == SubSeq(target_dir, Len(root_path) + 1, Len(target_dir))
         IN IF rest = <<>> THEN <<".">> ELSE rest
    ELSE target_dir

(***************************************************************************)
(* Status entries and Crawler::diff_ops.                                   *)
(***************************************************************************)
Deltas == {"Untracked", "Modified", "Deleted", "Renamed", "Added", "Typechange"}
StatusEntry(itw, hti) == [index_to_workdir |-> itw, head_to_index |-> hti]
\* every entry git2 can hand out: each view absent or of some delta kind
AllEntries == {StatusEntry(a, b) : a \in {None} \cup {Some(d) : d \in Deltas},
                                   b \in {None} \cup {Some(d) : d \in Deltas}}
               \ {StatusEntry(None, None)}

diff_ops_workdir_added(delta, set, ignore_untracked) ==
    CASE delta = "Untracked" -> IF ~ignore_untracked
                                THEN Insert(set, UntrackedFiles) ELSE set
      [] delta = "Added" -> Insert(set, AddedFiles)
      [] delta = "Modified" -> Insert(set, UncommittedChanges)
      [] delta = "Deleted" -> Insert(set, DeletedFiles)
      [] delta = "Renamed" -> Insert(set, RenamedFiles)
      [] OTHER -> set

diff_ops_workdir(delta, set, ignore_untracked) ==
    CASE delta = "Untracked" -> IF ~ignore_untracked
                                THEN Insert(set, UntrackedFiles) ELSE set
      [] delta = "Modified" -> Insert(set, UncommittedChanges)
      [] delta = "Deleted" -> Insert(set, DeletedFiles)
      [] delta = "Renamed" -> Insert(set, RenamedFiles)
      [] OTHER -> set

diff_ops_index(delta, set) ==
    CASE delta = "Added" -> Insert(set, AddedFiles)
      [] delta = "Modified" -> Insert(set, UncommittedChanges)
      [] delta = "Deleted" -> Insert(set, DeletedFiles)
      [] delta = "Renamed" -> Insert(set, RenamedFiles)
      [] OTHER -> set

diff_ops(status, set, ignore_untracked) ==
    LET p1 == IF IsSome(status.index_to_workdir)
              THEN diff_ops_workdir(Unwrap(status.index_to_workdir), set,
                                    ignore_untracked)
              ELSE set
    IN IF IsSome(status.head_to_index)
       THEN diff_ops_index(Unwrap(status.head_to_index), p1)
       ELSE p1

\* for status in statuses.iter() { pending = self.diff_ops(&status, pending) }
RECURSIVE diff_all(_, _, _)
diff_all(entries, set, ignore_untracked) ==
    IF entries = <<>> THEN set
    ELSE diff_all(Tail(entries), diff_ops(Head(entries), set, ignore_untracked),
                  ignore_untracked)

(***************************************************************************)
(* Results of fallible git2 calls, and references.                         *)
(***************************************************************************)
Ok(v) == [ok |-> TRUE, val |-> <<v>>, err |-> <<>>]
Err(e) == [ok |-> FALSE, val |-> <<>>, err |-> <<e>>]
IsOk(r) == r.ok
Val(r) == r.val[1]
ErrOf(r) == r.err[1]

\* git2::Reference: a direct reference holds an oid, a symbolic one a name.
DirectRef(oid) == [kind |-> "direct", oid |-> oid, sym |-> ""]
SymbolicRef(name) == [kind |-> "symbolic", oid |-> 0, sym |-> name]
\* Reference::target()
Target(ref) == IF ref.kind = "direct" THEN Some(ref.oid) ELSE None
\* PartialEq for Reference (git_reference_cmp): kinds, then oid or name
RefEqKind(a, b) == a.kind = b.kind
RefEq(a, b) ==
    /\ a.kind = b.kind
    /\ IF a.kind = "symbolic" THEN a.sym = b.sym ELSE a.oid = b.oid

(***************************************************************************)
(* What the environment can answer.                                        *)
(***************************************************************************)
\* repo.head() gives the reference HEAD resolves to, a direct one, or an
\* error.  Object ids are only compared for equality: HEAD's commit is
\* given oid 1, every other reference draws its oid from Oids.
HeadResults == {Ok(DirectRef(1))}
               \cup {Err(e) : e \in HeadErrors}

\* A Repository handle: its discovery index (the number of the WalkDir item
\* it was opened from) and what repo.statuses() answers for it.
Repository(id, status) == [id |-> id, statuses |-> status]

\* the status lists the crawl is run on
CrawlEntries == {StatusEntry(Some("Untracked"), None),
                 StatusEntry(Some("Modified"), Some("Modified"))}
StatusResults == {Err(ErrStatus)}
                 \cup {Ok(s) : s \in SeqsUpTo(CrawlEntries, MaxStatus)}

\* One name of repo.tag_names(): utf8 says whether the name is valid UTF-8
\* (tags.iter() yields None otherwise), found whether find_reference
\* succeeds, ref is the tag reference itself.
TagEntry(utf8, found, ref) == [utf8 |-> utf8, found |-> found, ref |-> ref]
TagEntries == {TagEntry(TRUE, TRUE, DirectRef(1)),
               TagEntry(TRUE, TRUE, DirectRef(MaxOid)),
               TagEntry(FALSE, TRUE, DirectRef(1)),
               TagEntry(TRUE, FALSE, DirectRef(1))}
TagLists == SeqsUpTo(TagEntries, MaxTags)
TagResults == {Err(ErrTagNames)} \cup {Ok(s) : s \in TagLists}
\* the answer of repo.tag_names() next to the tags the repository holds
TagNames(names, repo_tags) == [names |-> names, repo_tags |-> repo_tags]
TagAnswers == {TagNames(Ok(s), s) : s \in TagLists}
              \cup {TagNames(Err(ErrTagNames), s) : s \in TagLists}

\* local_branch.upstream(), the upstream's target, and graph_ahead_behind
Counts == ((0..MaxCount) \X (0..MaxCount)) \ {<<0, 0>>}
Upstream(up, ab) == [up |-> up, ab |-> ab]
UpstreamResults(local_oid) ==
    {Upstream(Err(ErrUpstream), None)}
    \cup {Upstream(Ok(SymbolicRef("refs/remotes/origin/x")), None)}
    \cup {Upstream(Ok(DirectRef(local_oid)), None)}
    \cup {Upstream(Ok(DirectRef(o)), Some(r)) :
             o \in {MaxOid} \ {local_oid},
             r \in {Err(ErrGraph)} \cup {Ok(c) : c \in Counts}}

(***************************************************************************)
(* The head-tag check, lib.rs 197-216.                                     *)
(***************************************************************************)
\* for tag in tags.iter() { ... if &reference == local_ref { untagged = false } }
SomeTagMatches(tag_list, local_ref) ==
    \E i \in DOMAIN tag_list :
        /\ tag_list[i].utf8
        /\ tag_list[i].found
        /\ RefEq(tag_list[i].ref, local_ref)

tag_check(tag_names, local_ref, set) ==
    IF IsOk(tag_names)
    THEN IF ~SomeTagMatches(Val(tag_names), local_ref)
         THEN Insert(set, UntaggedHead)
         ELSE set
    ELSE set

(***************************************************************************)
(* The upstream comparison, lib.rs 217-235.  Its value is None when the    *)
(* repository is dropped (upstream without a target), else Some(pending).  *)
(***************************************************************************)
ahead_behind_swapped(counts, set) ==
    LET p1 == IF counts[2] > 0 THEN Insert(set, UnpushedCommits) ELSE set
    IN IF counts[1] > 0 THEN Insert(p1, OutdatedBranch) ELSE p1
ahead_behind(counts, set) ==
    LET p1 == IF counts[1] > 0 THEN Insert(set, UnpushedCommits) ELSE set
    IN IF counts[2] > 0 THEN Insert(p1, OutdatedBranch) ELSE p1

upstream_check(u, local_oid, set) ==
    IF IsOk(u.up)
    THEN IF IsSome(Target(Val(u.up)))
         THEN IF local_oid # Unwrap(Target(Val(u.up)))
              THEN IF IsSome(u.ab) /\ IsOk(Unwrap(u.ab))
                   THEN Some(ahead_behind(Val(Unwrap(u.ab)), set))
                   ELSE Some(set)
              ELSE Some(set)
         ELSE None
    ELSE Some(set)

(***************************************************************************)
(* remote_ops, lib.rs 315-405.                                             *)
(***************************************************************************)
\* remote URLs, as character sequences: https://..., git@..., ssh://...
Urls == {<<"h", "t", "t", "p", "s", ":">>, <<"g", "i", "t", "@">>,
         <<"s", "s", "h", ":">>}
StartsWith(s, prefix) == IsPrefix(prefix, s)
AuthMethods == {"ssh-key", "ssh-agent", "helper"}
KeyFiles == <<"id_rsa", "id_dsa">>

\* lines 329-351: which credentials callback is installed.  home says
\* whether dirs::home_dir() is Some, keys is the set of key files that exist.
credentials(url, access_remote, home, keys) ==
    IF StartsWith(url, <<"h", "t", "t", "p">>) THEN "credential_helper"
    ELSE IF StartsWith(url, <<"g", "i", "t">>)
    THEN IF IsSome(access_remote)
         THEN IF Unwrap(access_remote) = "ssh-key"
              THEN IF home /\ KeyFiles[1] \in keys THEN "ssh_key id_rsa"
                   ELSE IF home /\ KeyFiles[2] \in keys THEN "ssh_key id_dsa"
                   ELSE "none"
              ELSE IF Unwrap(access_remote) = "ssh-agent"
                   THEN "ssh_key_from_agent"
                   ELSE "none"
         ELSE "none"
    ELSE "none"

\* advertised references: a name (path components, the peel marker "^{}"
\* as a last component) and an oid
RemoteHead(name, oid) == [name |-> name, oid |-> oid]
TagRefName(tag) == <<"refs", "tags", tag>>
TagName(i) == ToString(i)
RefNames == {TagRefName(TagName(i)) : i \in 1..MaxTags}
            \cup {TagRefName(TagName(1)) \o <<"^{}">>,
                  <<"refs", "heads", "main">>, <<"HEAD">>}
RemoteRefs == {RemoteHead(n, o) : n \in RefNames, o \in Oids}
ListResults == {Err(ErrList)} \cup {Ok(s) : s \in SeqsUpTo(RemoteRefs, MaxRefs)}

\* repo.branches(None): every branch, local and remote-tracking, or an error
\* for the item
BranchItem(ok, btype, ref) == [ok |-> ok, btype |-> btype, ref |-> ref]
BranchItems == {BranchItem(TRUE, t, DirectRef(o)) :
                    t \in {"Local", "Remote"}, o \in Oids}
               \cup {BranchItem(FALSE, "Local", DirectRef(1))}
BranchResults == {Err(ErrBranches)}
                 \cup {Ok(s) : s \in SeqsUpTo(BranchItems, MaxBranches)}

\* the list, branch and tag answers the crawl is run on
CrawlRefs == {RemoteHead(TagRefName(TagName(1)), 1),
              RemoteHead(<<"refs", "heads", "main">>, 1),
              RemoteHead(<<"refs", "heads", "main">>, MaxOid)}
CrawlLists == {Err(ErrList)} \cup {Ok(s) : s \in SeqsUpTo(CrawlRefs, MaxRefs)}
CrawlBranches == {Err(ErrBranches), Ok(<<>>),
                  Ok(<<BranchItem(TRUE, "Local", DirectRef(MaxOid))>>)}
CrawlTags == {Err(ErrTagNames), Ok(<<>>), Ok(<<TagEntry(TRUE, TRUE, DirectRef(1))>>)}

IsTagRef(name) == StartsWith(name, <<"refs", "tags">>) /\ Len(name) > 2
IsPeeled(name) == name[Len(name)] = "^{}"
IsHeadRef(name) == StartsWith(name, <<"refs", "heads">>)

\* lines 365-377
branch_found_local_only(branches, oid) ==
    /\ IsOk(branches)
    /\ \E i \in DOMAIN Val(branches) :
          /\ Val(branches)[i].ok
          /\ Val(branches)[i].btype = "Local"
          /\ IsSome(Target(Val(branches)[i].ref))
          /\ Unwrap(Target(Val(branches)[i].ref)) = oid
branch_found(branches, oid) ==
    /\ IsOk(branches)
    /\ \E i \in DOMAIN Val(branches) :
          /\ Val(branches)[i].ok
          /\ IsSome(Target(Val(branches)[i].ref))
          /\ Unwrap(Target(Val(branches)[i].ref)) = oid

\* lines 357-382: the loop over remote_list, giving <<remote_tags, pending>>
RECURSIVE scan_refs(_, _, _, _, _)
scan_refs(items, local_oid, branches, remote_tags, set) ==
    IF items = <<>> THEN <<remote_tags, set>>
    ELSE LET item == Head(items)
             tags1 == IF IsTagRef(item.name) /\ ~IsPeeled(item.name)
                      THEN remote_tags \cup {<<item.name, item.oid>>}
                      ELSE remote_tags
             set1 == IF /\ ~IsTagRef(item.name)
                        /\ IsHeadRef(item.name)
                        /\ item.oid # local_oid
                        /\ ~branch_found(branches, item.oid)
                     THEN Insert(set, UnfetchedCommits)
                     ELSE set
         IN scan_refs(Tail(items), local_oid, branches, tags1, set1)

\* lines 383-395
local_tag_set(tag_names) ==
    IF IsOk(tag_names)
    THEN {<<TagRefName(TagName(i)), Unwrap(Target(Val(tag_names)[i].ref))>> :
            i \in {j \in DOMAIN Val(tag_names) :
                      /\ Val(tag_names)[j].utf8
                      /\ Val(tag_names)[j].found
                      /\ IsSome(Target(Val(tag_names)[j].ref))}}
    ELSE {}

\* lines 355-402: what follows a successful connect_auth
remote_list_empty_on_err(list, local_oid, branches, tag_names, set) ==
    LET items == IF IsOk(list) THEN Val(list) ELSE <<>>
        scanned == scan_refs(items, local_oid, branches, {}, set)
        remote_tags == scanned[1]
        local_tags == local_tag_set(tag_names)
        p1 == IF ~(local_tags \subseteq remote_tags)
              THEN Insert(scanned[2], UnpushedTags) ELSE scanned[2]
    IN IF ~(remote_tags \subseteq local_tags)
       THEN Insert(p1, UnpulledTags) ELSE p1
remote_list(list, local_oid, branches, tag_names, set) ==
    IF IsOk(list)
    THEN LET scanned == scan_refs(Val(list), local_oid, branches, {}, set)
             remote_tags == scanned[1]
             local_tags == local_tag_set(tag_names)
             p1 == IF ~(local_tags \subseteq remote_tags)
                   THEN Insert(scanned[2], UnpushedTags) ELSE scanned[2]
         IN IF ~(remote_tags \subseteq local_tags)
            THEN Insert(p1, UnpulledTags) ELSE p1
    ELSE set

(***************************************************************************)
(* Policies of repo_ops.                                                   *)
(***************************************************************************)
\* lines 171-191: "error" (record with the error), "drop" (no record) or
\* "go" (inspection goes on)
IsUnborn(why) == why.class = "Reference" /\ why.code = "UnbornBranch"
head_policy_unconditional(h, ignore_uncommitted_repos) ==
    IF IsOk(h)
    THEN IF IsSome(Target(Val(h))) THEN "go" ELSE "drop"
    ELSE IF IsUnborn(ErrOf(h)) THEN "drop" ELSE "error"
head_policy(h, ignore_uncommitted_repos) ==
    IF IsOk(h)
    THEN IF IsSome(Target(Val(h))) THEN "go" ELSE "drop"
    ELSE IF ignore_uncommitted_repos /\ IsUnborn(ErrOf(h))
         THEN "drop" ELSE "error"

\* lines 248-262: the value of repo_ops once every step has passed
result_filter_clean_only(p, set, only_pending) ==
    IF only_pending THEN None
    ELSE IF set # <<>> THEN Some(Output(p, Some(set), None))
    ELSE Some(Output(p, None, None))
result_filter(p, set, only_pending) ==
    IF set # <<>> THEN Some(Output(p, Some(set), None))
    ELSE IF ~only_pending THEN Some(Output(p, None, None))
    ELSE None

\* the record of a hard error
error_output_keeps_pending(p, set, why) == Output(p, Some(set), Some(why))
error_output(p, set, why) == Output(p, None, Some(why))

(***************************************************************************)
(* The crawl.                                                              *)
(***************************************************************************)
Configs == [pending : BOOLEAN, ignore_untracked : BOOLEAN,
            ignore_uncommitted_repos : BOOLEAN, absolute_paths : BOOLEAN,
            untagged_heads : BOOLEAN,
            access_remote : {None} \cup {Some(m) : m \in AuthMethods}]

\* Crawler::new
NewConfig == [pending |-> FALSE, ignore_untracked |-> FALSE,
              ignore_uncommitted_repos |-> FALSE, absolute_paths |-> FALSE,
              untagged_heads |-> FALSE, access_remote |-> None]

Init ==
    /\ cfg = NewConfig
    /\ pc = "new"
    /\ walked = 0
    /\ walkDone = FALSE
    /\ repo = Repository(0, Ok(<<>>))
    /\ path = <<>>
    /\ pending = <<>>
    /\ head_res = None
    /\ local_head_oid = None
    /\ statuses = None
    /\ tags = None
    /\ upstream = None
    /\ callbacks = None
    /\ remote_res = None
    /\ last = "none"
    /\ out = None
    /\ returned = <<>>
    /\ k = 0
    /\ stack = <<>>
    /\ candidates = <<>>

walkVars == <<walked, walkDone, repo, stack, candidates>>
localVars == <<path, pending, head_res, local_head_oid, statuses, tags,
               upstream, callbacks, remote_res, last>>
callVars == <<out, returned>>

\* the builder methods, lines 94-153; they consume the Crawler, and are
\* called before the iteration starts
Configure(field, answer) ==
    /\ pc = "new"
    /\ cfg' = [cfg EXCEPT ![field] = answer]
    /\ UNCHANGED <<pc, walkVars, localVars, callVars, k>>

SetPending == \E answer \in BOOLEAN : Configure("pending", answer)
SetIgnoreUntracked == \E answer \in BOOLEAN : Configure("ignore_untracked", answer)
SetIgnoreUncommittedRepos ==
    \E answer \in BOOLEAN : Configure("ignore_uncommitted_repos", answer)
SetAbsolutePaths == \E answer \in BOOLEAN : Configure("absolute_paths", answer)
SetUntaggedHeads == \E answer \in BOOLEAN : Configure("untagged_heads", answer)
SetAccessRemote ==
    \E ssh_auth_method \in {None} \cup {Some(m) : m \in AuthMethods} :
        Configure("access_remote", ssh_auth_method)

\* the locals of repo_ops, before any of them is bound
ResetLocals ==
    /\ path' = <<>>
    /\ pending' = <<>>
    /\ head_res' = None
    /\ local_head_oid' = None
    /\ statuses' = None
    /\ tags' = None
    /\ upstream' = None
    /\ callbacks' = None
    /\ remote_res' = None
    /\ last' = "none"

\* the caller asks for the next record: Iterator::next is entered
CallNext ==
    /\ pc \in {"new", "idle"}
    /\ pc' = "iter"
    /\ out' = None
    /\ ResetLocals
    /\ UNCHANGED <<cfg, walkVars, returned, k>>

\* next() returns Some(output)
Emit(output) ==
    /\ out' = Some(output)
    /\ returned' = Append(returned, repo.id)
    /\ pc' = "idle"

\* repo_ops returned None: the loop of next() goes on
DropTo == "iter"
Drop ==
    /\ pc' = DropTo
    /\ UNCHANGED callVars

\* self.iter.next() gives None, lines 424-425
WalkEnd ==
    /\ pc = "iter"
    /\ walkDone' = TRUE
    /\ out' = None
    /\ pc' = "idle"
    /\ ResetLocals
    /\ UNCHANGED <<cfg, walked, repo, returned, k, stack, candidates>>

\* one item of WalkDir through the chain of filters, lines 84-89
WalkItems == [ok : BOOLEAN, is_dir : BOOLEAN, file_name : {".git", "src"}]
IsCandidate(entry) == entry.ok /\ entry.is_dir /\ entry.file_name # ".git"
AdvancePeek(n) == n
Advance(n) == n + 1
WalkItem ==
    /\ pc = "iter"
    /\ ~walkDone
    /\ walked < MaxWalk
    /\ walked' = Advance(walked)
    /\ \E entry \in WalkItems, opened \in BOOLEAN :
          IF IsCandidate(entry) /\ opened
          THEN /\ \E status \in StatusResults :
                     repo' = Repository(walked', status)
               /\ pc' = "repo_ops"
          ELSE repo' = repo /\ pc' = "iter"
    /\ ResetLocals
    /\ UNCHANGED <<cfg, walkDone, callVars, k, stack, candidates>>

\* repo_ops, lines 156-170: workdir, the discover check, the path
RepoOps ==
    /\ pc = "repo_ops"
    /\ last' = "repo_ops"
    /\ \E workdir \in BOOLEAN, discover \in BOOLEAN :
          IF workdir /\ discover
          THEN /\ path' = IF ~cfg.absolute_paths
                          THEN make_relative(RootPath, WorkDir(repo.id))
                          ELSE WorkDir(repo.id)
               /\ pc' = "head"
               /\ UNCHANGED callVars
          ELSE Drop /\ UNCHANGED path
    /\ UNCHANGED <<cfg, walkVars, pending, head_res, local_head_oid, statuses,
                   tags, upstream, callbacks, remote_res, k>>

\* lines 171-191: repo.head() and local_head_oid
HeadStep ==
    /\ pc = "head"
    /\ last' = "head"
    /\ \E h \in HeadResults :
          /\ head_res' = Some(h)
          /\ LET policy == head_policy(h, cfg.ignore_uncommitted_repos)
             IN CASE policy = "go" ->
                       /\ local_head_oid' = Target(Val(h))
                       /\ pc' = "statuses"
                       /\ UNCHANGED callVars
                  [] policy = "drop" -> Drop /\ UNCHANGED local_head_oid
                  [] policy = "error" ->
                       /\ Emit(error_output(path, pending, ErrOf(h)))
                       /\ UNCHANGED local_head_oid
    /\ UNCHANGED <<cfg, walkVars, path, pending, statuses, tags, upstream,
                   callbacks, remote_res, k>>

\* lines 192-196 and 264-268: repo.statuses() and the loop over diff_ops
StatusStep ==
    /\ pc = "statuses"
    /\ last' = "statuses"
    /\ LET s == repo.statuses
       IN /\ statuses' = Some(s)
          /\ IF IsOk(s)
             THEN /\ pending' = diff_all(Val(s), pending, cfg.ignore_untracked)
                  /\ pc' = IF cfg.untagged_heads THEN "tags" ELSE "upstream"
                  /\ UNCHANGED callVars
             ELSE /\ Emit(error_output(path, pending, ErrOf(s)))
                  /\ UNCHANGED pending
    /\ UNCHANGED <<cfg, walkVars, path, head_res, local_head_oid, tags,
                   upstream, callbacks, remote_res, k>>

\* lines 197-216
TagStep ==
    /\ pc = "tags"
    /\ last' = "tags"
    /\ \E t \in TagAnswers :
          /\ tags' = Some(t)
          /\ pending' = tag_check(t.names, Val(Unwrap(head_res)), pending)
    /\ pc' = "upstream"
    /\ UNCHANGED <<cfg, walkVars, path, head_res, local_head_oid, statuses,
                   upstream, callbacks, remote_res, callVars, k>>

\* lines 217-236
AfterUpstreamSkipsRemote(access_remote) == "filter"
AfterUpstream(access_remote) == IF IsSome(access_remote) THEN "remote" ELSE "filter"
UpstreamStep ==
    /\ pc = "upstream"
    /\ last' = "upstream"
    /\ tags' = None
    /\ \E u \in UpstreamResults(Unwrap(local_head_oid)) :
          /\ upstream' = Some(u)
          /\ LET r == upstream_check(u, Unwrap(local_head_oid), pending)
             IN IF IsSome(r)
                THEN /\ pending' = Unwrap(r)
                     /\ pc' = AfterUpstream(cfg.access_remote)
                     /\ UNCHANGED callVars
                ELSE Drop /\ UNCHANGED pending
    /\ UNCHANGED <<cfg, walkVars, path, head_res, local_head_oid, statuses,
                   callbacks, remote_res, k>>

\* what remote_ops has met so far
RemoteRes(origin, connect, list) ==
    [origin |-> origin, connect |-> connect, list |-> list]

\* remote_ops up to the choice of the credentials, lines 321-351
RemoteFind ==
    /\ pc = "remote"
    /\ last' = "remote"
    /\ upstream' = None
    /\ \/ \* find_remote("origin") fails
          /\ remote_res' = Some(RemoteRes(FALSE, None, None))
          /\ pc' = "filter"
          /\ UNCHANGED callbacks
       \/ \* Config::open_default() fails: expect() panics
          /\ remote_res' = Some(RemoteRes(TRUE, None, None))
          /\ pc' = "panicked"
          /\ UNCHANGED callbacks
       \/ \* remote.url() is None
          /\ remote_res' = Some(RemoteRes(TRUE, None, None))
          /\ pc' = "filter"
          /\ UNCHANGED callbacks
       \/ \E url \in Urls, home \in BOOLEAN, keys \in SUBSET Range(KeyFiles) :
             /\ callbacks' = Some(credentials(url, cfg.access_remote, home, keys))
             /\ remote_res' = Some(RemoteRes(TRUE, None, None))
             /\ pc' = "connect"
    /\ UNCHANGED <<cfg, walkVars, path, pending, head_res, local_head_oid,
                   statuses, tags, callVars, k>>

\* remote.connect_auth(Direction::Fetch, Some(callbacks), None)?, line 354
ConnectAuth ==
    /\ pc = "connect"
    /\ last' = "connect"
    /\ callbacks' = None
    /\ \E connect \in {Ok("connected"), Err(ErrConnect)} :
          /\ remote_res' = Some(RemoteRes(TRUE, Some(connect), None))
          /\ IF IsOk(connect)
             THEN pc' = "list" /\ UNCHANGED callVars
             ELSE Emit(error_output(path, pending, ErrOf(connect)))
    /\ UNCHANGED <<cfg, walkVars, path, pending, head_res, local_head_oid,
                   statuses, tags, upstream, k>>

\* remote_ops after connect_auth, lines 355-404
RemoteList ==
    /\ pc = "list"
    /\ last' = "list"
    /\ \E list \in CrawlLists, branches \in CrawlBranches,
          tag_names \in CrawlTags :
          /\ remote_res' = Some(RemoteRes(TRUE, Unwrap(remote_res).connect,
                                          Some(IsOk(list))))
          /\ pending' = remote_list(list, Unwrap(local_head_oid), branches,
                                    tag_names, pending)
    /\ pc' = "filter"
    /\ UNCHANGED <<cfg, walkVars, path, head_res, local_head_oid, statuses,
                   tags, upstream, callbacks, callVars, k>>

\* lines 248-262
Filter ==
    /\ pc = "filter"
    /\ last' = "filter"
    /\ upstream' = None
    /\ LET r == result_filter(path, pending, cfg.pending)
       IN IF IsSome(r) THEN Emit(Unwrap(r)) ELSE Drop
    /\ UNCHANGED <<cfg, walkVars, path, pending, head_res, local_head_oid,
                   statuses, tags, callbacks, remote_res, k>>

Next ==
    \/ SetPending
    \/ SetIgnoreUntracked
    \/ SetIgnoreUncommittedRepos
    \/ SetAbsolutePaths
    \/ SetUntaggedHeads
    \/ SetAccessRemote
    \/ CallNext
    \/ WalkEnd
    \/ WalkItem
    \/ RepoOps
    \/ HeadStep
    \/ StatusStep
    \/ TagStep
    \/ UpstreamStep
    \/ RemoteFind
    \/ ConnectAuth
    \/ RemoteList
    \/ Filter

Spec == Init /\ [][Next]_vars

(***************************************************************************)
(* The diff_ops driver: the loop of lines 194-196 on every status list,    *)
(* one entry per step.                                                     *)
(***************************************************************************)
InitDiff ==
    /\ cfg \in {[NewConfig EXCEPT !.ignore_untracked = b] : b \in BOOLEAN}
    /\ pc = "diff"
    /\ statuses \in {Some(Ok(s)) : s \in SeqsUpTo(AllEntries, MaxDiff)}
    /\ pending = <<>>
    /\ k = 0
    /\ walked = 0
    /\ walkDone = FALSE
    /\ repo = Repository(0, Ok(<<>>))
    /\ path = <<".">>
    /\ head_res = None
    /\ local_head_oid = None
    /\ tags = None
    /\ upstream = None
    /\ callbacks = None
    /\ remote_res = None
    /\ last = "none"
    /\ out = None
    /\ returned = <<>>
    /\ stack = <<>>
    /\ candidates = <<>>

DiffStep ==
    /\ pc = "diff"
    /\ k < Len(Val(Unwrap(statuses)))
    /\ pending' = diff_ops(Val(Unwrap(statuses))[k + 1], pending,
                           cfg.ignore_untracked)
    /\ k' = k + 1
    /\ UNCHANGED <<cfg, pc, walkVars, path, head_res, local_head_oid, statuses,
                   tags, upstream, callbacks, remote_res, last, callVars>>

NextDiff == DiffStep

SpecDiff == InitDiff /\ [][NextDiff]_vars

(***************************************************************************)
(* The walker on its own, lib.rs 83-89: WalkDir's depth-first walk of a    *)
(* directory tree of depth MaxDepth through the chain of filters, up to    *)
(* the call of Repository::open.  What a directory holds is known when     *)
(* WalkDir reads it.                                                       *)
(***************************************************************************)
Names == {".git", "src"}
DirEntry(p, ok, is_dir) ==
    [path |-> p, ok |-> ok, is_dir |-> is_dir, file_name |-> p[Len(p)]]
Depth(p) == Len(p) - Len(RootPath)
\* the items read_dir(p) can give: per name a directory, a file or an error
ChildEntries(p) ==
    {DirEntry(p \o <<n>>, TRUE, d) : n \in Names, d \in BOOLEAN}
    \cup {DirEntry(p \o <<n>>, FALSE, FALSE) : n \in Names}
ReadDirs(p) ==
    {s \in SeqsUpTo(ChildEntries(p), Cardinality(Names)) :
        \A i, j \in DOMAIN s : i # j => s[i].file_name # s[j].file_name}

\* WalkDir leaves the directories it has exhausted
RECURSIVE PopExhausted(_)
PopExhausted(st) ==
    IF st # <<>> /\ st[Len(st)] = <<>>
    THEN PopExhausted(SubSeq(st, 1, Len(st) - 1))
    ELSE st

\* WalkDir descends into every directory it yields: .filter (line 88) drops
\* the entry after WalkDir has yielded it and prunes nothing
Descends(entry) == entry.ok /\ entry.is_dir

InitWalk ==
    /\ cfg = NewConfig
    /\ pc = "walk"
    /\ stack \in {<<<<DirEntry(RootPath, ok, d)>>>> : ok \in BOOLEAN, d \in BOOLEAN}
    /\ candidates = <<>>
    /\ walked = 0
    /\ walkDone = FALSE
    /\ repo = Repository(0, Ok(<<>>))
    /\ path = <<>>
    /\ pending = <<>>
    /\ head_res = None
    /\ local_head_oid = None
    /\ statuses = None
    /\ tags = None
    /\ upstream = None
    /\ callbacks = None
    /\ remote_res = None
    /\ last = "none"
    /\ out = None
    /\ returned = <<>>
    /\ k = 0

walkRest == <<cfg, repo, localVars, callVars, k>>

\* one item of WalkDir, through the filters of lines 85-88, to the call of
\* Repository::open of line 89
WalkDirNext ==
    /\ pc = "walk"
    /\ PopExhausted(stack) # <<>>
    /\ LET st == PopExhausted(stack)
           entry == Head(st[Len(st)])
           rest == [st EXCEPT ![Len(st)] = Tail(st[Len(st)])]
       IN /\ IF Descends(entry) /\ Depth(entry.path) < MaxDepth
             THEN \E children \in ReadDirs(entry.path) :
                     stack' = Append(rest, children)
             ELSE stack' = rest
          /\ candidates' = IF IsCandidate(entry)
                           THEN Append(candidates, entry.path)
                           ELSE candidates
    /\ walked' = walked + 1
    /\ UNCHANGED <<pc, walkDone, walkRest>>

\* WalkDir is exhausted
WalkDirEnd ==
    /\ pc = "walk"
    /\ PopExhausted(stack) = <<>>
    /\ stack' = <<>>
    /\ walkDone' = TRUE
    /\ pc' = "walked"
    /\ UNCHANGED <<walked, candidates, walkRest>>

NextWalk == WalkDirNext \/ WalkDirEnd

SpecWalk == InitWalk /\ [][NextWalk]_vars

(***************************************************************************)
(* remote_ops after connect_auth on its own, lib.rs 355-402: the answers   *)
(* of remote.list(), repo.branches(None) and repo.tag_names(None) over     *)
(* their whole range, for any target of HEAD.                              *)
(***************************************************************************)
RemoteAnswers(list, branches, tag_names) ==
    [list |-> list, branches |-> branches, tag_names |-> tag_names]

InitRemote ==
    /\ cfg \in {[NewConfig EXCEPT !.access_remote = Some(m)] : m \in AuthMethods}
    /\ pc = "list"
    /\ local_head_oid \in {Some(o) : o \in Oids}
    /\ remote_res \in {Some(RemoteAnswers(l, b, t)) :
                          l \in ListResults, b \in BranchResults, t \in CrawlTags}
    /\ pending = <<>>
    /\ last = "connect"
    /\ walked = 1
    /\ walkDone = FALSE
    /\ repo = Repository(1, Ok(<<>>))
    /\ path = <<".">>
    /\ head_res = None
    /\ statuses = None
    /\ tags = None
    /\ upstream = None
    /\ callbacks = None
    /\ out = None
    /\ returned = <<>>
    /\ k = 0
    /\ stack = <<>>
    /\ candidates = <<>>

ListStep ==
    /\ pc = "list"
    /\ last' = "list"
    /\ pending' = remote_list(Unwrap(remote_res).list, Unwrap(local_head_oid),
                              Unwrap(remote_res).branches,
                              Unwrap(remote_res).tag_names, pending)
    /\ pc' = "listed"
    /\ UNCHANGED <<cfg, walkVars, path, head_res, local_head_oid, statuses,
                   tags, upstream, callbacks, remote_res, callVars, k>>

NextRemote == ListStep

SpecRemote == InitRemote /\ [][NextRemote]_vars

(***************************************************************************)
(* Properties.                                                             *)
(***************************************************************************)
NoDup(s) == \A i, j \in DOMAIN s : i # j => s[i] # s[j]
Count(s, x) == Cardinality({i \in DOMAIN s : s[i] = x})
Labels == Range(pending)
\* repo_ops has returned, to the caller with a record or to the loop without
Finished == pc \in {"idle", "iter"}
NoRecord == pc = "iter" /\ out = None /\ repo.id \notin Range(returned)
OneRecord(output) ==
    /\ pc = "idle"
    /\ out = Some(output)
    /\ Count(returned, repo.id) = 1

\* C1: every record returned by next() is clean (no pending, no error), or
\* carries a non-empty duplicate-free pending set and no error, or carries
\* an error and no pending set, whatever labels had been collected.
C1_OutputShape ==
    IsSome(out) =>
        LET o == Unwrap(out)
        IN \/ o.pending = None /\ o.error = None
           \/ /\ IsSome(o.pending)
              /\ Unwrap(o.pending) # <<>>
              /\ NoDup(Unwrap(o.pending))
              /\ o.error = None
           \/ IsSome(o.error) /\ o.pending = None

\* an error record returned after labels had been collected
C1_Witness ==
    /\ IsSome(out)
    /\ IsSome(Unwrap(out).error)
    /\ Len(pending) >= 2

\* C2: no failure met while inspecting a repository aborts the crawl.
C2_CrawlNeverAborts == pc # "panicked"

\* C3: when repo.head() fails with the unborn-branch error the repository
\* gives no record if ignore_uncommitted_repos is set and one error record
\* (pending absent) if not; any other failure of repo.head() gives one
\* error record whatever the configuration.
C3_HeadFailurePolicy ==
    (last = "head" /\ ~IsOk(Unwrap(head_res))) =>
        LET why == ErrOf(Unwrap(head_res))
        IN IF why = ErrUnborn /\ cfg.ignore_uncommitted_repos
           THEN NoRecord
           ELSE OneRecord(Output(path, None, Some(why)))

\* HEAD fails for another reason than an unborn branch, under only-pending
\* and ignore_uncommitted_repos
C3_Witness ==
    /\ last = "head"
    /\ head_res = Some(Err(ErrHeadNotFound))
    /\ cfg.ignore_uncommitted_repos
    /\ cfg.pending
    /\ pc = "idle"

\* C4 as claimed: a repository that passed the locator and whose status
\* diff cannot be computed gives one record with the status error, whatever
\* its HEAD.
C4_AnyHeadState ==
    (last \notin {"none", "repo_ops"} /\ ~IsOk(repo.statuses) /\ Finished) =>
        OneRecord(Output(path, None, Some(ErrOf(repo.statuses))))

\* C4: a repository that passed the locator, whose HEAD resolves to a
\* reference with a target and whose status diff cannot be computed gives
\* one record with the status error and no pending set, whatever the
\* configuration.
C4_StatusErrorSurfaced ==
    (/\ last \notin {"none", "repo_ops"}
     /\ ~IsOk(repo.statuses)
     /\ head_policy(Unwrap(head_res), cfg.ignore_uncommitted_repos) = "go"
     /\ pc # "statuses") =>
        /\ last = "statuses"
        /\ OneRecord(Output(path, None, Some(ErrOf(repo.statuses))))

C4_Witness ==
    /\ last = "statuses"
    /\ ~IsOk(repo.statuses)
    /\ cfg.pending
    /\ cfg.untagged_heads
    /\ IsSome(cfg.access_remote)
    /\ pc = "idle"

\* C5: a repository that reaches the filter gives the record
\* {pending = Some(labels)} when it has labels, with or without
\* only-pending; without labels it gives the clean record when only-pending
\* is not set and no record when it is.
C5_ResultFilter ==
    last = "filter" =>
        IF pending # <<>>
        THEN OneRecord(Output(path, Some(pending), None))
        ELSE IF ~cfg.pending
        THEN OneRecord(Output(path, None, None))
        ELSE NoRecord

C5_Witness ==
    /\ last = "filter"
    /\ pending # <<>>
    /\ cfg.pending
    /\ pc = "idle"

\* C6 as claimed: with a remote-access strategy configured, remote_ops runs
\* after the upstream comparison whatever its outcome.
C6_RemoteAlwaysRuns ==
    (last = "upstream" /\ IsSome(cfg.access_remote)) => pc = "remote"

\* C6: with a remote-access strategy configured, remote_ops runs after the
\* upstream comparison when there is no upstream, when the tips are equal,
\* when they differ and when the ahead/behind computation fails; when the
\* upstream reference has no target the repository is dropped without a
\* record and remote_ops does not run.
C6_RemoteRunsUnlessDropped ==
    (last = "upstream" /\ IsSome(cfg.access_remote)) =>
        IF /\ IsOk(Unwrap(upstream).up)
           /\ Target(Val(Unwrap(upstream).up)) = None
        THEN NoRecord
        ELSE pc = "remote"

\* the ahead/behind computation failed and remote_ops is next
C6_Witness ==
    /\ last = "upstream"
    /\ IsSome(cfg.access_remote)
    /\ IsSome(Unwrap(upstream).ab)
    /\ ~IsOk(Unwrap(Unwrap(upstream).ab))
    /\ pc = "remote"

\* C7: the records come in discovery order, at most one per repository, a
\* record is the record of the repository inspected last, and once the walk
\* is exhausted next() returns None.
C7_DiscoveryOrder ==
    /\ \A i, j \in DOMAIN returned : i < j => returned[i] < returned[j]
    /\ \A i \in DOMAIN returned : returned[i] <= repo.id
    /\ repo.id <= walked
    /\ IsSome(out) =>
          /\ pc = "idle"
          /\ returned # <<>>
          /\ returned[Len(returned)] = repo.id
    /\ (walkDone /\ pc = "idle") => out = None

C7_Witness ==
    /\ Len(returned) = 2
    /\ walkDone
    /\ pc = "idle"

\* the labels one status entry stands for (the table of the mapping)
EntryLabels(e, ignore_untracked) ==
    LET views == {e.index_to_workdir, e.head_to_index}
    IN {l \in {UntrackedFiles} :
            e.index_to_workdir = Some("Untracked") /\ ~ignore_untracked}
       \cup {l \in {UncommittedChanges} : Some("Modified") \in views}
       \cup {l \in {DeletedFiles} : Some("Deleted") \in views}
       \cup {l \in {RenamedFiles} : Some("Renamed") \in views}
       \cup {l \in {AddedFiles} : e.head_to_index = Some("Added")}

\* C8: the labels of the status entries are the union over the entries of
\* the mapping of their two views, in whatever order the entries come, with
\* "untracked files" only when ignore_untracked is false; one untracked file
\* alone gives {"untracked files"}, or a clean record when ignore_untracked
\* is set.
C8_StatusLabels ==
    pc = "diff" =>
        LET entries == Val(Unwrap(statuses))
        IN /\ Labels = UNION {EntryLabels(entries[i], cfg.ignore_untracked) :
                                 i \in 1..k}
           /\ NoDup(pending)
           /\ (entries = <<StatusEntry(Some("Untracked"), None)>> /\ k = 1) =>
                 IF cfg.ignore_untracked
                 THEN result_filter(path, pending, cfg.pending)
                      = Some(Output(path, None, None))
                 ELSE result_filter(path, pending, cfg.pending)
                      = Some(Output(path, Some(<<UntrackedFiles>>), None))

\* two entries, four labels
C8_Witness ==
    /\ pc = "diff"
    /\ k = 2
    /\ Len(pending) = 4

\* C9: after the upstream comparison "unpushed commits" is a label exactly
\* when there is an upstream with a target, the tips differ and the computed
\* ahead count is positive, "outdated branch" exactly when the same holds of
\* the behind count; without an upstream neither is.
C9_UpstreamLabels ==
    last = "upstream" =>
        LET u == Unwrap(upstream)
            differs == /\ IsOk(u.up)
                       /\ IsSome(Target(Val(u.up)))
                       /\ Unwrap(Target(Val(u.up))) # Unwrap(local_head_oid)
            counted == differs /\ IsSome(u.ab) /\ IsOk(Unwrap(u.ab))
        IN /\ UnpushedCommits \in Labels <=>
                 (counted /\ Val(Unwrap(u.ab))[1] > 0)
           /\ OutdatedBranch \in Labels <=>
                 (counted /\ Val(Unwrap(u.ab))[2] > 0)
           /\ ~IsOk(u.up) =>
                 (UnpushedCommits \notin Labels /\ OutdatedBranch \notin Labels)

\* 2 ahead, 0 behind
C9_Witness ==
    /\ last = "upstream"
    /\ Unwrap(upstream).ab = Some(Ok(<<2, 0>>))
    /\ UnpushedCommits \in Labels
    /\ OutdatedBranch \notin Labels

\* a tag of the repository whose reference has the target of HEAD
TaggedAtHead(repo_tags, local_ref) ==
    \E i \in DOMAIN repo_tags : repo_tags[i].ref.oid = local_ref.oid

\* C10 as claimed: with untagged_heads enabled, "untagged HEAD" is a label
\* exactly when no tag of the repository has the target of HEAD.
C10_UntaggedIffNoTag ==
    last = "tags" =>
        (UntaggedHead \in Labels <=>
            ~TaggedAtHead(Unwrap(tags).repo_tags, Val(Unwrap(head_res))))

\* C10: with untagged_heads enabled and the tag names enumerated, "untagged
\* HEAD" is a label exactly when no enumerated tag with a UTF-8 name and a
\* reference that can be looked up has the target of HEAD; when the
\* enumeration fails, or untagged_heads is disabled, it is never a label.
C10_UntaggedHead ==
    /\ last = "tags" =>
          LET t == Unwrap(tags)
              local_ref == Val(Unwrap(head_res))
          IN UntaggedHead \in Labels <=>
                /\ IsOk(t.names)
                /\ ~\E i \in DOMAIN t.repo_tags :
                       /\ t.repo_tags[i].utf8
                       /\ t.repo_tags[i].found
                       /\ t.repo_tags[i].ref.kind = "direct"
                       /\ t.repo_tags[i].ref.oid = local_ref.oid
    /\ ~cfg.untagged_heads => UntaggedHead \notin Labels

\* a tag at another commit than HEAD: the label is added
C10_Witness ==
    /\ last = "tags"
    /\ IsOk(Unwrap(tags).names)
    /\ Unwrap(tags).repo_tags # <<>>
    /\ UntaggedHead \in Labels

\* the labels only remote_ops can add
RemoteLabels == {UnfetchedCommits, UnpushedTags, UnpulledTags}
\* connect_auth, resp. remote.list(), was called and failed
ConnectFailed ==
    /\ IsSome(remote_res)
    /\ IsSome(Unwrap(remote_res).connect)
    /\ ~IsOk(Unwrap(Unwrap(remote_res).connect))
ListFailed ==
    /\ IsSome(remote_res)
    /\ Unwrap(remote_res).list = Some(FALSE)

\* C11 as claimed: with an origin remote, a failure of connect_auth or of
\* the listing of the advertised references ends repo_ops with an error
\* record carrying that failure and no pending set.
C11_Step3FailureIsError ==
    (Finished /\ (ConnectFailed \/ ListFailed)) =>
        \E why \in {ErrConnect, ErrList} :
            OneRecord(Output(path, None, Some(why)))

\* C11: a failure of connect_auth ends repo_ops with the error record of
\* that failure, pending absent whatever labels had been collected; a
\* failure of remote.list() is skipped: no remote label is added and the
\* record is the one the filter makes of the labels collected before.
C11_ConnectFailureIsError ==
    /\ (last = "connect" /\ ConnectFailed) =>
          OneRecord(Output(path, None,
                           Some(ErrOf(Unwrap(Unwrap(remote_res).connect)))))
    /\ ListFailed =>
          /\ Labels \cap RemoteLabels = {}
          /\ last \in {"list", "filter"}
          /\ last = "list" => pc = "filter"
          /\ last = "filter" =>
                IF pending # <<>>
                THEN OneRecord(Output(path, Some(pending), None))
                ELSE IF cfg.pending THEN NoRecord
                     ELSE OneRecord(Output(path, None, None))

\* connect_auth failed after labels had been collected
C11_Witness ==
    /\ last = "connect"
    /\ ConnectFailed
    /\ pending # <<>>
    /\ pc = "idle"
    /\ IsSome(out)

\* C12: no directory named ".git" and no directory beneath a ".git"
\* directory is handed to Repository::open as a candidate.
C12_NeverInsideGit ==
    \A i \in DOMAIN candidates : ".git" \notin Range(candidates[i])

\* the advertised branch heads away from HEAD's target: refs/heads/* items
\* of the listing whose oid differs from local_head_oid
AheadHeads ==
    {i \in DOMAIN Val(Unwrap(remote_res).list) :
        LET item == Val(Unwrap(remote_res).list)[i]
        IN /\ ~IsTagRef(item.name)
           /\ IsHeadRef(item.name)
           /\ item.oid # Unwrap(local_head_oid)}
\* the branches repo.branches(None) gives, of the given types, with tip oid
TipOf(types, oid) ==
    /\ IsOk(Unwrap(remote_res).branches)
    /\ \E j \in DOMAIN Val(Unwrap(remote_res).branches) :
          LET b == Val(Unwrap(remote_res).branches)[j]
          IN b.ok /\ b.btype \in types /\ Target(b.ref) = Some(oid)
Listed == pc = "listed" /\ IsOk(Unwrap(remote_res).list)

\* C13 as claimed: after a successful listing "unfetched commits" is in
\* the label set if and only if some advertised refs/heads/* reference has
\* an oid that differs from HEAD's target and is the tip of no local
\* branch, remote-tracking branches not counting.
C13_LocalBranchesOnly ==
    Listed =>
        (UnfetchedCommits \in Labels <=>
            \E i \in AheadHeads :
                ~TipOf({"Local"}, Val(Unwrap(remote_res).list)[i].oid))

\* C13: after a successful listing "unfetched commits" is in the label set
\* if and only if some advertised refs/heads/* reference has an oid that
\* differs from HEAD's target and is the tip of no branch that
\* repo.branches(None) yields, local or remote-tracking; a failed branch
\* enumeration yields no branch.
C13_UnfetchedCommits ==
    Listed =>
        (UnfetchedCommits \in Labels <=>
            \E i \in AheadHeads :
                ~TipOf({"Local", "Remote"}, Val(Unwrap(remote_res).list)[i].oid))

\* an advertised head away from HEAD is the tip of a remote-tracking
\* branch only, and the label is not added
C13_Witness ==
    /\ Listed
    /\ \E i \in AheadHeads :
          /\ TipOf({"Remote"}, Val(Unwrap(remote_res).list)[i].oid)
          /\ ~TipOf({"Local"}, Val(Unwrap(remote_res).list)[i].oid)
    /\ UnfetchedCommits \notin Labels

====
